---- MODULE Spec2Model ----
(***************************************************************************)
(* Event-time windowed aggregation of sensor readings (src/main.py).       *)
(*                                                                         *)
(* run_pipeline builds: Create(data) -> timestamps -> key/value pairs ->   *)
(* WindowInto(FixedWindows(60), AfterWatermark, DISCARDING) ->             *)
(* CombinePerKey(SensorStatisticsCombineFn) -> window annotation.          *)
(*                                                                         *)
(* The model has the accumulator store keyed by (key, window), the         *)
(* watermark, the trigger check that fires the windows the watermark has   *)
(* passed, and the four operations of SensorStatisticsCombineFn.           *)
(***************************************************************************)
EXTENDS Integers, Sequences, FiniteSets, TLC

\* ------------------------------------------------------------------------
\* Bounds of the model
\* ------------------------------------------------------------------------

\* longest accumulator the reducer is handed on its own
MaxAccLen == 2

\* producers that ingest into one (key, window) at the same time, and the
\* records each of them brings
NProducers == 2

PerProducer == 3

\* largest window size and event-time magnitude explored for the assigner
MaxSize == 4

MaxTime == 9

\* ------------------------------------------------------------------------
\* Inputs
\* ------------------------------------------------------------------------

\* FixedWindows(60)
WindowSize == 60

\* a temperature is held in tenths of a degree: 205 is 20.5
Scale == 10

\* the event time of the first record, March 15, 2023 00:00:00 GMT
Epoch == 1678886400

Rec(key, value, event_time) ==
    [key |-> key, value |-> value, event_time |-> event_time]

\* the list handed to Create
data ==
    << Rec("sensor_A", 200, Epoch),
       Rec("sensor_B", 250, Epoch + 10),
       Rec("sensor_A", 205, Epoch + 30),
       Rec("sensor_A", 210, Epoch + 60),
       Rec("sensor_B", 245, Epoch + 70),
       Rec("sensor_A", 203, Epoch + 90),
       Rec("sensor_A", 220, Epoch + 120),
       Rec("sensor_B", 260, Epoch + 130),
       Rec("sensor_A", 230, Epoch + 180),
       Rec("sensor_A", 200, Epoch + 240),
       Rec("sensor_A", 210, Epoch + 250),
       Rec("sensor_A", 220, Epoch + 260) >>

Records == {data[i] : i \in DOMAIN data}

Keys == {r.key : r \in Records}

Times == {r.event_time : r \in Records}

\* candidates handed to the watermark; the source may hand them in any order
Candidates == {Epoch + 60, Epoch + 120}

\* values the reducer is explored with on its own, in tenths: -1.0, 0.0,
\* 1.0 and 2.0 (-1.0 and 1.0 have mean zero)
RValues == {-10, 0, 10, 20}

\* the accumulators the reducer is handed on its own
BoundedAccs == UNION {[1..n -> RValues] : n \in 0..MaxAccLen}

\* a statistic is a fraction in lowest terms, the square root of one, or one
\* of the two float values that are no number
Num(num, den) == [kind |-> "num", num |-> num, den |-> den]

Sqrt(r) == [kind |-> "sqrt", num |-> r.num, den |-> r.den]

NaN == [kind |-> "nan", num |-> 0, den |-> 1]

PosInf == [kind |-> "inf", num |-> 0, den |-> 1]

\* ------------------------------------------------------------------------
\* Exact arithmetic for the statistics
\* ------------------------------------------------------------------------

Abs(n) == IF n < 0 THEN -n ELSE n

RECURSIVE Gcd(_, _)
Gcd(a, b) == IF b = 0 THEN a ELSE Gcd(b, a % b)

\* the quotient num/den as a fraction in lowest terms, den # 0
Ratio(num, den) ==
    LET g == Gcd(Abs(num), Abs(den))
        s == IF den < 0 THEN -1 ELSE 1
    IN  Num((s * num) \div g, (s * den) \div g)

RECURSIVE SumSeq(_)
SumSeq(s) == IF s = <<>> THEN 0 ELSE Head(s) + SumSeq(Tail(s))

RECURSIVE SumSq(_)
SumSq(s) == IF s = <<>> THEN 0 ELSE Head(s) * Head(s) + SumSq(Tail(s))

\* n * sum((x - mean)^2), an integer: n * sum(x^2) - (sum x)^2
ScaledSqDev(s) == Len(s) * SumSq(s) - SumSeq(s) * SumSeq(s)

\* ------------------------------------------------------------------------
\* SensorStatisticsCombineFn
\* ------------------------------------------------------------------------

create_accumulator == <<>>

\* the element replaces what was accumulated
add_input_replace(accumulator, element) == <<element>>

add_input(accumulator, element) == Append(accumulator, element)

\* each accumulator is put in front of what was merged so far
RECURSIVE merge_accumulators_front(_)
merge_accumulators_front(accumulators) ==
    IF accumulators = <<>> THEN <<>>
    ELSE merge_accumulators_front(Tail(accumulators)) \o Head(accumulators)

\* each accumulator replaces what was merged so far
merge_accumulators_last(accumulators) ==
    IF accumulators = <<>> THEN <<>>
    ELSE accumulators[Len(accumulators)]

RECURSIVE merge_accumulators(_)
merge_accumulators(accumulators) ==
    IF accumulators = <<>> THEN <<>>
    ELSE Head(accumulators) \o merge_accumulators(Tail(accumulators))

\* the latest value instead of the mean
np_mean_last(values) == Ratio(values[Len(values)], Scale)

\* np.mean(values), in degrees
np_mean(values) == Ratio(SumSeq(values), Len(values) * Scale)

\* stats.tstd(values): sqrt of the variance with ddof = 1, in degrees; the
\* value is kept as the radicand.  One value gives 0/0.
stats_tstd(values) ==
    IF Len(values) < 2 THEN NaN
    ELSE Sqrt(Ratio(ScaledSqDev(values),
                    Len(values) * (Len(values) - 1) * Scale * Scale))

\* stats.variation(values) ** 2: (population std / mean) squared, which has
\* no unit
variation_sq(values) ==
    IF SumSeq(values) = 0
    THEN IF ScaledSqDev(values) = 0 THEN NaN ELSE PosInf
    ELSE Ratio(ScaledSqDev(values), SumSeq(values) * SumSeq(values))

\* no values give zeros
extract_output_zero(accumulator) ==
    IF accumulator = <<>>
    THEN [count |-> 0, mean |-> Num(0, 1), std_dev |-> Num(0, 1),
          variance |-> Num(0, 1)]
    ELSE [count    |-> Len(accumulator),
          mean     |-> np_mean(accumulator),
          std_dev  |-> stats_tstd(accumulator),
          variance |-> variation_sq(accumulator)]

extract_output(accumulator) ==
    IF accumulator = <<>>
    THEN [count |-> 0, mean |-> NaN, std_dev |-> NaN, variance |-> NaN]
    ELSE [count    |-> Len(accumulator),
          mean     |-> np_mean(accumulator),
          std_dev  |-> stats_tstd(accumulator),
          variance |-> variation_sq(accumulator)]

\* ------------------------------------------------------------------------
\* Window assigner: FixedWindows(size), offset 0
\* ------------------------------------------------------------------------

\* the remainder truncates toward zero, as in C
assign_trunc(event_time, window_size) ==
    LET rem   == IF event_time < 0
                 THEN -((-event_time) % window_size)
                 ELSE event_time % window_size
        start == event_time - rem
    IN  [start |-> start, end |-> start + window_size]

assign(event_time, window_size) ==
    LET start == event_time - (event_time % window_size)
    IN  [start |-> start, end |-> start + window_size]

\* the windows the records of the model can fall into
Windows == {assign(t, WindowSize) : t \in Times}

KW == Keys \X Windows

\* ------------------------------------------------------------------------
\* Watermark: the least timestamp, an event time, or the greatest timestamp
\* ------------------------------------------------------------------------

MinWm == [kind |-> "min", t |-> 0]

Fin(t) == [kind |-> "fin", t |-> t]

MaxWm == [kind |-> "max", t |-> 0]

WmLeq(a, b) ==
    \/ a.kind = "min"
    \/ b.kind = "max"
    \/ a.kind = "fin" /\ b.kind = "fin" /\ a.t <= b.t

\* the candidate overwrites the watermark
advance_overwrite(wm, candidate) == candidate

\* watermark = max(watermark, candidate)
advance(wm, candidate) == IF WmLeq(wm, candidate) THEN candidate ELSE wm

\* fires as soon as the watermark enters the window
Passed_start(wm, window) == WmLeq(Fin(window.start), wm)

\* AfterWatermark: the watermark has reached the end of the window
Passed(wm, window) == WmLeq(Fin(window.end), wm)

\* ------------------------------------------------------------------------
\* Accumulator store, keyed by (key, window)
\* ------------------------------------------------------------------------

\* no allowed lateness: a window is expired once the watermark is after its
\* end; at the end itself it is not
Expired(wm, window) == ~WmLeq(wm, Fin(window.end))

\* the store is keyed by the window alone: every key gets the value
addRecord_allKeys(st, wm, fd, key, window, value) ==
    IF Expired(wm, window) \/ <<key, window>> \in fd THEN st
    ELSE [kw \in DOMAIN st \cup {<<k, window>> : k \in Keys} |->
             IF kw[2] = window
             THEN add_input(IF kw \in DOMAIN st THEN st[kw]
                            ELSE create_accumulator, value)
             ELSE st[kw]]

\* a late record opens the window again
addRecord_reopen(st, wm, fd, key, window, value) ==
    LET kw == <<key, window>>
    IN  IF kw \in DOMAIN st
        THEN [st EXCEPT ![kw] = add_input(@, value)]
        ELSE st @@ (kw :> add_input(create_accumulator, value))

\* CombinePerKey on the windowed records: a record is dropped when its
\* window is expired or its pair has fired; otherwise it is accumulated,
\* also when the watermark is exactly at the end of the window and the pane
\* is about to fire; the first record of a pair creates its accumulator
addRecord(st, wm, fd, key, window, value) ==
    LET kw == <<key, window>>
    IN  IF Expired(wm, window) \/ kw \in fd THEN st
        ELSE IF kw \in DOMAIN st
        THEN [st EXCEPT ![kw] = add_input(@, value)]
        ELSE st @@ (kw :> add_input(create_accumulator, value))

\* a dropped record is not counted
countLate_none(n, wm, fd, key, window) == n

\* the late-dropped count after a record for (key, window) arrived
countLate(n, wm, fd, key, window) ==
    IF Expired(wm, window) \/ <<key, window>> \in fd THEN n + 1 ELSE n

listEligible(st, wm) == {kw \in DOMAIN st : Passed(wm, kw[2])}

\* AccumulationMode.ACCUMULATING: the accumulator stays
discard_keep(st, kw) == st

\* AccumulationMode.DISCARDING: the accumulator of the fired pane goes
discard(st, kw) == [x \in DOMAIN st \ {kw} |-> st[x]]

\* "Add Window Info"
result(key, window, v) ==
    [sensor |-> key, window_start |-> window.start, statistics |-> v]

\* ------------------------------------------------------------------------
\* State
\* ------------------------------------------------------------------------

VARIABLES
    pc,            \* "ingest", "eos" (watermark forced to the end), "done"
    watermark,
    store,         \* (key, window) -> accumulator, for the open windows
    fired,         \* the (key, window) pairs that have fired
    emitted,       \* (key, window) -> the results emitted for it, in order
    lateDropped,   \* number of records dropped as late
    ingested,      \* the records that arrived, in arrival order
    lastCandidate, \* the candidate of the latest advance before end-of-stream
    at1, at2, asz, aw1, aw2, adone,   \* the assigner on its own
    rx, ry, rdone, accFwd, accRev, accMerged, accOne, outFwd, outRev,
                   \* the reducer on its own
    ra, rb, mdone, mrgA, mrgAB, mrgBA, outA,
                   \* the reducer on two given accumulators
    seen,          \* the watermark as the trigger engine read it last
    cAcc,          \* the accumulator the producers share
    cLock,         \* the producer that holds the entry, 0 for none
    cPc,           \* producer -> "idle", "locked", "loaded", "stored"
    cLocal,        \* producer -> the accumulator as it loaded it
    cTodo,         \* producer -> records it has still to bring
    cShard,        \* producer -> its own partial accumulator
    cAccepted,     \* the values accepted so far
    cMerged,       \* the merge of the partial accumulators
    cDone          \* the partial accumulators were merged

pipeVars == <<pc, watermark, store, fired, emitted, lateDropped, ingested,
              lastCandidate>>

assignVars == <<at1, at2, asz, aw1, aw2, adone>>

reducerVars == <<rx, ry, rdone, accFwd, accRev, accMerged, accOne, outFwd,
                 outRev>>

accVars == <<ra, rb, mdone, mrgA, mrgAB, mrgBA, outA>>

vars == <<pc, watermark, store, fired, emitted, lateDropped, ingested,
          lastCandidate, at1, at2, asz, aw1, aw2, adone,
          rx, ry, rdone, accFwd, accRev, accMerged, accOne, outFwd, outRev,
          ra, rb, mdone, mrgA, mrgAB, mrgBA, outA,
          seen, cAcc, cLock, cPc, cLocal, cTodo, cShard, cAccepted, cMerged,
          cDone>>

racyVars == <<seen>>

concVars == <<cAcc, cLock, cPc, cLocal, cTodo, cShard, cAccepted, cMerged,
              cDone>>

Producers == 1..NProducers

NoWindow == [start |-> 0, end |-> 0]

PipeInit ==
    /\ pc = "ingest"
    /\ watermark = MinWm
    /\ store = <<>>
    /\ fired = {}
    /\ emitted = [kw \in KW |-> <<>>]
    /\ lateDropped = 0
    /\ ingested = <<>>
    /\ lastCandidate = MinWm

AssignIdle ==
    /\ at1 = 0 /\ at2 = 0 /\ asz = 1
    /\ aw1 = NoWindow /\ aw2 = NoWindow /\ adone = FALSE

ReducerIdle ==
    /\ rx = 0 /\ ry = 0 /\ rdone = {}
    /\ accFwd = <<>> /\ accRev = <<>> /\ accMerged = <<>> /\ accOne = <<>>
    /\ outFwd = extract_output(<<>>) /\ outRev = extract_output(<<>>)

AccIdle ==
    /\ ra = <<>> /\ rb = <<>> /\ mdone = {}
    /\ mrgA = <<>> /\ mrgAB = <<>> /\ mrgBA = <<>>
    /\ outA = extract_output(<<>>)

RacyIdle == seen = MinWm

ConcInit ==
    /\ cAcc = create_accumulator
    /\ cLock = 0
    /\ cPc = [p \in Producers |-> "idle"]
    /\ cLocal = [p \in Producers |-> create_accumulator]
    /\ cTodo = [p \in Producers |-> PerProducer]
    /\ cShard = [p \in Producers |-> create_accumulator]
    /\ cAccepted = {}
    /\ cMerged = create_accumulator
    /\ cDone = FALSE

Init ==
    /\ PipeInit /\ AssignIdle /\ ReducerIdle /\ AccIdle
    /\ RacyIdle /\ ConcInit

\* ------------------------------------------------------------------------
\* The pipeline
\* ------------------------------------------------------------------------

\* the next record of the list arrives: it is assigned its window and
\* added to the store; when it is accumulated and the watermark wm that the
\* trigger sees has reached the end of the window, the pane of its pair
\* fires in the same call, with the new value in it
Arrive(key, value, event_time, wm) ==
    /\ pc = "ingest"
    /\ Len(ingested) < Len(data)
    /\ data[Len(ingested) + 1] = Rec(key, value, event_time)
    /\ LET window == assign(event_time, WindowSize)
           kw     == <<key, window>>
           held   == addRecord(store, watermark, fired, key, window, value)
       IN  /\ lateDropped' = countLate(lateDropped, watermark, fired, key,
                                       window)
           /\ IF held # store /\ Passed(wm, window)
              THEN /\ emitted' = [emitted EXCEPT ![kw] =
                         Append(@, result(key, window,
                                          extract_output(held[kw])))]
                   /\ fired' = fired \cup {kw}
                   /\ store' = discard(held, kw)
              ELSE /\ store' = held
                   /\ UNCHANGED <<fired, emitted>>
    /\ ingested' = Append(ingested, Rec(key, value, event_time))
    /\ UNCHANGED <<pc, watermark, lastCandidate>>

Ingest(key, value, event_time) == Arrive(key, value, event_time, watermark)

Advance(candidate) ==
    /\ pc = "ingest"
    /\ watermark' = advance(watermark, Fin(candidate))
    /\ lastCandidate' = Fin(candidate)
    /\ UNCHANGED <<pc, store, fired, emitted, lateDropped, ingested>>

\* the source is exhausted: every record of the list was handed out
AdvanceToInfinity ==
    /\ pc = "ingest"
    /\ Len(ingested) = Len(data)
    /\ pc' = "eos"
    /\ watermark' = advance(watermark, MaxWm)
    /\ UNCHANGED <<store, fired, emitted, lateDropped, ingested,
                   lastCandidate>>

\* the pane of one (key, window) that the watermark wm has passed fires: the
\* output of the combiner goes through "Add Window Info" to the output and
\* the accumulator is discarded
FirePane(kw, wm) ==
    /\ pc \in {"ingest", "eos"}
    /\ kw \in listEligible(store, wm)
    /\ emitted' = [emitted EXCEPT ![kw] =
           Append(@, result(kw[1], kw[2], extract_output(store[kw])))]
    /\ fired' = fired \cup {kw}
    /\ store' = discard(store, kw)
    /\ UNCHANGED <<pc, watermark, lateDropped, ingested, lastCandidate>>

\* the trigger fires the panes the watermark has passed, one at a time and
\* in any order
TriggerCheck == \E kw \in KW : FirePane(kw, watermark)

\* the pipeline ends without waiting for the windows to fire
Halt_nowait ==
    /\ pc = "eos"
    /\ pc' = "done"
    /\ UNCHANGED <<watermark, store, fired, emitted, lateDropped, ingested,
                   lastCandidate>>

\* the pipeline ends once nothing is left to fire
Halt ==
    /\ pc = "eos"
    /\ listEligible(store, watermark) = {}
    /\ pc' = "done"
    /\ UNCHANGED <<watermark, store, fired, emitted, lateDropped, ingested,
                   lastCandidate>>

PipeNext ==
    \/ \E r \in Records : Ingest(r.key, r.value, r.event_time)
    \/ \E c \in Candidates : Advance(c)
    \/ AdvanceToInfinity
    \/ TriggerCheck
    \/ Halt

Next ==
    /\ PipeNext
    /\ UNCHANGED assignVars /\ UNCHANGED reducerVars /\ UNCHANGED accVars
    /\ UNCHANGED racyVars /\ UNCHANGED concVars

Spec == Init /\ [][Next]_vars

\* the runner keeps checking the trigger and ends the pipeline
LiveSpec ==
    /\ Spec
    /\ WF_vars(TriggerCheck /\ UNCHANGED assignVars /\ UNCHANGED reducerVars
                             /\ UNCHANGED accVars /\ UNCHANGED racyVars
                             /\ UNCHANGED concVars)
    /\ WF_vars(Halt /\ UNCHANGED assignVars /\ UNCHANGED reducerVars
                     /\ UNCHANGED accVars /\ UNCHANGED racyVars
                     /\ UNCHANGED concVars)

TypeOK ==
    /\ pc \in {"ingest", "eos", "done"}
    /\ DOMAIN store \subseteq KW
    /\ fired \subseteq KW
    /\ lateDropped \in 0..Cardinality(Records)
    /\ \A i \in 1..Len(ingested) : ingested[i] \in Records

\* ------------------------------------------------------------------------
\* The assigner on its own: two event times and a window size
\* ------------------------------------------------------------------------

AssignInit ==
    /\ at1 \in -MaxTime..MaxTime
    /\ at2 \in -MaxTime..MaxTime
    /\ asz \in 1..MaxSize
    /\ aw1 = NoWindow /\ aw2 = NoWindow /\ adone = FALSE
    /\ PipeInit /\ ReducerIdle /\ AccIdle /\ RacyIdle /\ ConcInit

Assign ==
    /\ ~adone
    /\ aw1' = assign(at1, asz)
    /\ aw2' = assign(at2, asz)
    /\ adone' = TRUE
    /\ UNCHANGED <<at1, at2, asz>>

NextAssign ==
    /\ Assign
    /\ UNCHANGED pipeVars /\ UNCHANGED reducerVars /\ UNCHANGED accVars
    /\ UNCHANGED racyVars /\ UNCHANGED concVars

SpecAssign == AssignInit /\ [][NextAssign]_vars

\* ------------------------------------------------------------------------
\* The reducer on its own: two values x and y
\* ------------------------------------------------------------------------

ReducerInit ==
    /\ rx \in RValues
    /\ ry \in RValues
    /\ rdone = {}
    /\ accFwd = <<>> /\ accRev = <<>> /\ accMerged = <<>> /\ accOne = <<>>
    /\ outFwd = extract_output(<<>>) /\ outRev = extract_output(<<>>)
    /\ PipeInit /\ AssignIdle /\ AccIdle /\ RacyIdle /\ ConcInit

\* add(add(create(), x), y)
AddInOrder ==
    /\ "fwd" \notin rdone
    /\ accFwd' = add_input(add_input(create_accumulator, rx), ry)
    /\ rdone' = rdone \cup {"fwd"}
    /\ UNCHANGED <<rx, ry, accRev, accMerged, accOne, outFwd, outRev>>

\* add(add(create(), y), x)
AddReversed ==
    /\ "rev" \notin rdone
    /\ accRev' = add_input(add_input(create_accumulator, ry), rx)
    /\ rdone' = rdone \cup {"rev"}
    /\ UNCHANGED <<rx, ry, accFwd, accMerged, accOne, outFwd, outRev>>

\* merge([add(create(), x), add(create(), y)])
MergeSingles ==
    /\ "merged" \notin rdone
    /\ accMerged' = merge_accumulators(<<add_input(create_accumulator, rx),
                                         add_input(create_accumulator, ry)>>)
    /\ rdone' = rdone \cup {"merged"}
    /\ UNCHANGED <<rx, ry, accFwd, accRev, accOne, outFwd, outRev>>

\* merge([create()])
MergeOne ==
    /\ "one" \notin rdone
    /\ accOne' = merge_accumulators(<<create_accumulator>>)
    /\ rdone' = rdone \cup {"one"}
    /\ UNCHANGED <<rx, ry, accFwd, accRev, accMerged, outFwd, outRev>>

ExtractBoth ==
    /\ {"fwd", "rev"} \subseteq rdone
    /\ "ext" \notin rdone
    /\ outFwd' = extract_output(accFwd)
    /\ outRev' = extract_output(accRev)
    /\ rdone' = rdone \cup {"ext"}
    /\ UNCHANGED <<rx, ry, accFwd, accRev, accMerged, accOne>>

ReducerSteps ==
    \/ AddInOrder
    \/ AddReversed
    \/ MergeSingles
    \/ MergeOne
    \/ ExtractBoth

NextReducer ==
    /\ ReducerSteps
    /\ UNCHANGED pipeVars /\ UNCHANGED assignVars /\ UNCHANGED accVars
    /\ UNCHANGED racyVars /\ UNCHANGED concVars

SpecReducer == ReducerInit /\ [][NextReducer]_vars

\* ------------------------------------------------------------------------
\* The reducer on two given accumulators a and b
\* ------------------------------------------------------------------------

AccInit ==
    /\ ra \in BoundedAccs
    /\ rb \in BoundedAccs
    /\ mdone = {}
    /\ mrgA = <<>> /\ mrgAB = <<>> /\ mrgBA = <<>>
    /\ outA = extract_output(<<>>)
    /\ PipeInit /\ AssignIdle /\ ReducerIdle /\ RacyIdle /\ ConcInit

\* merge([a])
MergeSingle ==
    /\ "single" \notin mdone
    /\ mrgA' = merge_accumulators(<<ra>>)
    /\ mdone' = mdone \cup {"single"}
    /\ UNCHANGED <<ra, rb, mrgAB, mrgBA, outA>>

\* merge([a, b]) and merge([b, a])
MergeBothOrders ==
    /\ "both" \notin mdone
    /\ mrgAB' = merge_accumulators(<<ra, rb>>)
    /\ mrgBA' = merge_accumulators(<<rb, ra>>)
    /\ mdone' = mdone \cup {"both"}
    /\ UNCHANGED <<ra, rb, mrgA, outA>>

\* extract(a)
ExtractGiven ==
    /\ "ext" \notin mdone
    /\ outA' = extract_output(ra)
    /\ mdone' = mdone \cup {"ext"}
    /\ UNCHANGED <<ra, rb, mrgA, mrgAB, mrgBA>>

AccSteps ==
    \/ MergeSingle
    \/ MergeBothOrders
    \/ ExtractGiven

NextAcc ==
    /\ AccSteps
    /\ UNCHANGED pipeVars /\ UNCHANGED assignVars /\ UNCHANGED reducerVars
    /\ UNCHANGED racyVars /\ UNCHANGED concVars

SpecAcc == AccInit /\ [][NextAcc]_vars

\* ------------------------------------------------------------------------
\* The trigger engine with a watermark it read earlier
\* ------------------------------------------------------------------------

\* the trigger engine reads the watermark
ReadWatermark ==
    /\ pc \in {"ingest", "eos"}
    /\ seen' = watermark
    /\ UNCHANGED pipeVars

\* the trigger engine fires the panes that the watermark it read has
\* passed, one at a time
FireSeen == (\E kw \in KW : FirePane(kw, seen)) /\ UNCHANGED seen

RacySteps ==
    \/ (\E r \in Records : Arrive(r.key, r.value, r.event_time, seen))
          /\ UNCHANGED seen
    \/ (\E c \in Candidates : Advance(c)) /\ UNCHANGED seen
    \/ AdvanceToInfinity /\ UNCHANGED seen
    \/ ReadWatermark
    \/ FireSeen
    \/ Halt /\ UNCHANGED seen

NextRacy ==
    /\ RacySteps
    /\ UNCHANGED assignVars /\ UNCHANGED reducerVars /\ UNCHANGED accVars
    /\ UNCHANGED concVars

SpecRacy == Init /\ [][NextRacy]_vars

\* ------------------------------------------------------------------------
\* Producers that ingest into one (key, window), one at a time per entry
\* ------------------------------------------------------------------------

\* the value of the record a producer brings next
NextValue(p, todo) == 10 * p + todo

AllValues == {NextValue(p, n) : p \in Producers, n \in 1..PerProducer}

\* a producer takes the entry when nobody holds it
Acquire(p) ==
    /\ cPc[p] = "idle"
    /\ cTodo[p] > 0
    /\ cLock = 0
    /\ cLock' = p
    /\ cPc' = [cPc EXCEPT ![p] = "locked"]
    /\ UNCHANGED <<cAcc, cLocal, cTodo, cShard, cAccepted, cMerged, cDone>>

\* it loads the accumulator of the entry
Load(p) ==
    /\ cPc[p] = "locked"
    /\ cLocal' = [cLocal EXCEPT ![p] = cAcc]
    /\ cPc' = [cPc EXCEPT ![p] = "loaded"]
    /\ UNCHANGED <<cAcc, cLock, cTodo, cShard, cAccepted, cMerged, cDone>>

\* it adds its value and puts the accumulator back: add_input appends to
\* the list it is handed and returns that list, so the accumulator the
\* producer loaded holds the value too; the value also goes to the partial
\* accumulator of the producer
Store(p) ==
    /\ cPc[p] = "loaded"
    /\ cLocal' = [cLocal EXCEPT
                     ![p] = add_input(@, NextValue(p, cTodo[p]))]
    /\ cAcc' = cLocal'[p]
    /\ cShard' = [cShard EXCEPT
                     ![p] = add_input(@, NextValue(p, cTodo[p]))]
    /\ cAccepted' = cAccepted \cup {NextValue(p, cTodo[p])}
    /\ cTodo' = [cTodo EXCEPT ![p] = @ - 1]
    /\ cPc' = [cPc EXCEPT ![p] = "stored"]
    /\ UNCHANGED <<cLock, cMerged, cDone>>

Release(p) ==
    /\ cPc[p] = "stored"
    /\ cLock' = 0
    /\ cPc' = [cPc EXCEPT ![p] = "idle"]
    /\ UNCHANGED <<cAcc, cLocal, cTodo, cShard, cAccepted, cMerged, cDone>>

\* the partial accumulators of all producers are merged
MergeShards ==
    /\ ~cDone
    /\ \A p \in Producers : cPc[p] = "idle" /\ cTodo[p] = 0
    /\ cMerged' = merge_accumulators([p \in Producers |-> cShard[p]])
    /\ cDone' = TRUE
    /\ UNCHANGED <<cAcc, cLock, cPc, cLocal, cTodo, cShard, cAccepted>>

ConcSteps ==
    \/ \E p \in Producers : Acquire(p)
    \/ \E p \in Producers : Load(p)
    \/ \E p \in Producers : Store(p)
    \/ \E p \in Producers : Release(p)
    \/ MergeShards

NextConc ==
    /\ ConcSteps
    /\ UNCHANGED pipeVars /\ UNCHANGED assignVars /\ UNCHANGED reducerVars
    /\ UNCHANGED accVars /\ UNCHANGED racyVars

SpecConc == Init /\ [][NextConc]_vars

\* ------------------------------------------------------------------------
\* Properties
\* ------------------------------------------------------------------------

\* the n-th window of the run, counted from the window of the first record
W(n) == [start |-> Epoch + n * WindowSize,
         end   |-> Epoch + (n + 1) * WindowSize]

\* the window of the model that holds an event time, from the interval alone
WindowOf(t) == CHOOSE w \in Windows : w.start <= t /\ t < w.end

\* the (key, window) of the record that arrived last
LastKW(log) == <<log[Len(log)].key, WindowOf(log[Len(log)].event_time)>>

\* watermark >= window.end, spelled out
AtOrAfterEnd(wm, window) ==
    wm.kind = "max" \/ (wm.kind = "fin" /\ wm.t >= window.end)

\* the values of the records of a key with event time in a window, in
\* arrival order
RECURSIVE ValuesOf(_, _, _)
ValuesOf(log, key, window) ==
    IF log = <<>> THEN <<>>
    ELSE LET r == Head(log)
             rest == ValuesOf(Tail(log), key, window)
         IN  IF r.key = key /\ window.start <= r.event_time
                            /\ r.event_time < window.end
             THEN <<r.value>> \o rest
             ELSE rest

\* C1: emit is invoked at most once for every (key, window), whatever the
\* order of arrivals and advances, late records and repeated advances
\* included.
ExactlyOnceFiring == \A kw \in KW : Len(emitted[kw]) <= 1

\* the first window has fired for a key, the record that arrived last was
\* for that pair and was dropped, and the watermark was advanced again, with
\* a smaller candidate, after it had passed the second window
ExactlyOnceWitness ==
    /\ lateDropped >= 1
    /\ ingested # <<>>
    /\ LastKW(ingested) \in fired
    /\ LastKW(ingested)[2] = W(0)
    /\ Len(emitted[LastKW(ingested)]) = 1
    /\ watermark = Fin(Epoch + 120)
    /\ lastCandidate = Fin(Epoch + 60)

\* C2: a (key, window) fires only in a step where it is OPEN, or gets its
\* first record in that step, and the watermark is at or after the end of
\* the window; a FIRED pair stays FIRED
\* and its result is never emitted again; every OPEN pair whose end the
\* watermark has reached is fired by the trigger, whose panes come out one
\* at a time, and the pipeline does not end with such a pair left OPEN.
FiresExactlyAtWatermark ==
    /\ [][ /\ \A kw \in KW :
                 emitted'[kw] # emitted[kw] =>
                     /\ AtOrAfterEnd(watermark, kw[2])
                     /\ kw \notin fired
                     /\ \/ kw \in DOMAIN store
                        \/ /\ ingested' # ingested
                           /\ LastKW(ingested') = kw
                     /\ kw \in fired' /\ kw \notin DOMAIN store'
           /\ \A kw \in fired :
                 kw \in fired' /\ emitted'[kw] = emitted[kw]
         ]_vars
    /\ \A kw \in KW :
         (kw \in DOMAIN store /\ AtOrAfterEnd(watermark, kw[2]))
             ~> (kw \in fired)
    /\ [](pc = "done" =>
            \A kw \in DOMAIN store : ~AtOrAfterEnd(watermark, kw[2]))

\* at watermark Epoch + 60 the first window has fired for sensor_A while
\* the pane of sensor_B for that window is still to come out, and the
\* second window of sensor_A is open
FiresAtWatermarkWitness ==
    /\ watermark = Fin(Epoch + 60)
    /\ <<"sensor_A", W(0)>> \in fired
    /\ <<"sensor_B", W(0)>> \in DOMAIN store
    /\ <<"sensor_A", W(1)>> \in DOMAIN store
    /\ <<"sensor_A", W(1)>> \notin fired

\* C3: the watermark never decreases; an advance sets it to the greater of
\* the watermark and the candidate, so a smaller candidate changes nothing,
\* and an advance is possible with every candidate while records arrive.
WatermarkMonotone ==
    [][ /\ WmLeq(watermark, watermark')
        /\ \A c \in Candidates :
             Advance(c) =>
                 watermark' = IF watermark.kind = "fin" /\ watermark.t >= c
                              THEN watermark ELSE Fin(c)
        /\ pc = "ingest" => \A c \in Candidates : ENABLED Advance(c)
      ]_vars

\* the latest advance had a candidate below the watermark
BackwardAdvanceWitness ==
    lastCandidate = Fin(Epoch + 60) /\ watermark = Fin(Epoch + 120)

\* C4: a record that arrives for a (key, window) that has fired changes no
\* emitted result, creates no accumulator and leaves the pair FIRED, and
\* no later step emits for a FIRED pair.
DiscardingLaw ==
    [][ /\ (ingested' # ingested /\ LastKW(ingested') \in fired) =>
             /\ emitted' = emitted
             /\ store' = store
             /\ LastKW(ingested') \notin DOMAIN store'
             /\ fired' = fired
        /\ \A kw \in fired :
             Len(emitted[kw]) = 1 /\ emitted'[kw] = emitted[kw]
      ]_vars

\* the record that arrived last is the second of sensor_A in the second
\* window; the watermark is exactly at the end of that window, so the
\* window is not expired and a record for it is dropped only when its pair
\* has fired: the pair fired with the first record alone, and the arrival
\* left it with that one result and without an accumulator
DiscardingWitness ==
    /\ pc = "ingest"
    /\ watermark = Fin(Epoch + 120)
    /\ Len(ingested) = 6
    /\ ingested[6] = data[6]
    /\ LastKW(ingested) = <<"sensor_A", W(1)>>
    /\ ~Expired(watermark, W(1))
    /\ <<"sensor_A", W(1)>> \in fired
    /\ <<"sensor_A", W(1)>> \notin DOMAIN store
    /\ Len(emitted[<<"sensor_A", W(1)>>]) = 1
    /\ emitted[<<"sensor_A", W(1)>>][1].statistics.count = 1
    /\ emitted[<<"sensor_A", W(1)>>][1].statistics.mean = Num(21, 1)
    /\ lateDropped >= 1

\* C5: once the watermark is forced to the end, every (key, window) that
\* is OPEN eventually is FIRED and the pipeline eventually is done; when it
\* is done no pair is OPEN, and every FIRED pair has its result emitted and
\* its accumulator gone.
EndOfStreamDrains ==
    /\ \A kw \in KW :
         (pc = "eos" /\ kw \in DOMAIN store) ~> (kw \in fired)
    /\ (pc = "eos") ~> (pc = "done")
    /\ [](pc = "done" =>
            /\ DOMAIN store = {}
            /\ \A kw \in KW : kw \in fired <=> Len(emitted[kw]) = 1)
    /\ [](\A kw \in fired : kw \notin DOMAIN store /\ emitted[kw] # <<>>)

\* the pipeline is done, all records of the list arrived and no advance
\* came before the end of the stream: the eight pairs that were open then
\* have fired
DrainWitness ==
    /\ pc = "done"
    /\ lastCandidate = MinWm
    /\ Len(ingested) = Len(data)
    /\ Cardinality(fired) = 8
    /\ DOMAIN store = {}

\* C6: when no advance comes before the end of the stream, the accumulator
\* of (k, w) holds, while the records arrive, exactly the values of the
\* records of k with event time in [w.start, w.end); the result emitted
\* for (k, w) is the output of the combiner on these values, its count is
\* the number of these records, and the number of firings of k is the
\* number of distinct windows k has records in.
PerWindowAggregation ==
    /\ watermark = MinWm =>
          \A kw \in KW :
              LET vals == ValuesOf(ingested, kw[1], kw[2])
              IN  /\ emitted[kw] = <<>>
                  /\ IF vals = <<>> THEN kw \notin DOMAIN store
                     ELSE kw \in DOMAIN store /\ store[kw] = vals
    /\ (pc = "done" /\ lastCandidate = MinWm) =>
        /\ \A kw \in KW :
              LET vals == ValuesOf(ingested, kw[1], kw[2])
              IN  IF vals = <<>> THEN emitted[kw] = <<>>
                  ELSE /\ Len(emitted[kw]) = 1
                       /\ emitted[kw][1].sensor = kw[1]
                       /\ emitted[kw][1].window_start = kw[2].start
                       /\ emitted[kw][1].statistics.count = Len(vals)
                       /\ emitted[kw][1].statistics = extract_output(vals)
        /\ \A k \in Keys :
              Cardinality({w \in Windows : emitted[<<k, w>>] # <<>>})
                  = Cardinality({WindowOf(ingested[i].event_time) :
                        i \in {j \in 1..Len(ingested) : ingested[j].key = k}})

\* the run of the program: the twelve records arrive in the order of the
\* list and the watermark jumps to the end; eight results come out, among
\* them count 2 and mean 20.25 for sensor_A in the first window, count 1
\* and mean 25 for sensor_B in it, and count 3 and mean 21 for sensor_A in
\* the fifth
ProgramRunWitness ==
    /\ pc = "done"
    /\ lastCandidate = MinWm
    /\ ingested = data
    /\ fired = ({"sensor_A"} \X {W(0), W(1), W(2), W(3), W(4)})
                  \cup ({"sensor_B"} \X {W(0), W(1), W(2)})
    /\ emitted[<<"sensor_A", W(0)>>][1].statistics.count = 2
    /\ emitted[<<"sensor_A", W(0)>>][1].statistics.mean = Num(81, 4)
    /\ emitted[<<"sensor_B", W(0)>>][1].statistics.count = 1
    /\ emitted[<<"sensor_B", W(0)>>][1].statistics.mean = Num(25, 1)
    /\ emitted[<<"sensor_A", W(4)>>][1].statistics.count = 3
    /\ emitted[<<"sensor_A", W(4)>>][1].statistics.mean = Num(21, 1)
    /\ emitted[<<"sensor_A", W(4)>>][1].statistics.std_dev
           = Sqrt(Num(1, 1))

\* C7: assign(t, s) is the window with start = floor(t/s)*s and
\* end = start + s, so start <= t < end; two event times with the same
\* floor(t/s) get the same window, and windows of distinct starts do not
\* overlap.
AssignIsFloorAligned ==
    adone =>
        /\ aw1.start = (at1 \div asz) * asz
        /\ aw1.end = aw1.start + asz
        /\ aw1.start <= at1 /\ at1 < aw1.end
        /\ aw2.start <= at2 /\ at2 < aw2.end
        /\ (at1 \div asz) = (at2 \div asz) => aw1 = aw2
        /\ aw1.start # aw2.start =>
               aw1.end <= aw2.start \/ aw2.end <= aw1.start

\* two distinct negative event times inside one window, off its boundary
AssignWitness ==
    /\ adone
    /\ at1 = -3 /\ at2 = -2 /\ asz = 4
    /\ aw1 = [start |-> -4, end |-> 0] /\ aw2 = aw1

\* C8: a (key, window) that received no record never fires and has no
\* result, also after the watermark was forced to the end.
EmptyWindowLaw ==
    \A kw \in KW :
        ValuesOf(ingested, kw[1], kw[2]) = <<>> =>
            /\ emitted[kw] = <<>>
            /\ kw \notin fired
            /\ kw \notin DOMAIN store

\* the pipeline is done, sensor_A has fired the fourth window, in which
\* sensor_B has no record, and sensor_B, which has fired others, has no
\* result for it
EmptyWindowWitness ==
    /\ pc = "done"
    /\ emitted[<<"sensor_A", W(3)>>] # <<>>
    /\ ValuesOf(ingested, "sensor_B", W(3)) = <<>>
    /\ emitted[<<"sensor_B", W(3)>>] = <<>>
    /\ \E w \in Windows : emitted[<<"sensor_B", w>>] # <<>>

\* C9: the output extracted after adding x then y equals the output
\* extracted after adding y then x.
OrderIndependence == "ext" \in rdone => outFwd = outRev

\* two different values were added in both orders and extracted
OrderWitness ==
    /\ "ext" \in rdone
    /\ rx = -10 /\ ry = 20
    /\ accFwd = <<-10, 20>> /\ accRev = <<20, -10>>
    /\ outFwd.count = 2 /\ outFwd.mean = Num(1, 2)

\* C10: merge([create()]) = create(), and
\* merge([add(create(), x), add(create(), y)]) = add(add(create(), x), y).
ReducerAlgebra ==
    /\ "one" \in rdone => accOne = create_accumulator
    /\ {"fwd", "merged"} \subseteq rdone => accMerged = accFwd

\* both sides were computed for two different values
AlgebraWitness ==
    /\ {"one", "fwd", "merged"} \subseteq rdone
    /\ rx = 10 /\ ry = 20
    /\ accMerged = <<10, 20>>

\* how often a value occurs in an accumulator
Occurrences(acc, v) == Cardinality({i \in DOMAIN acc : acc[i] = v})

\* C11, as stated: merge([a]) = a and merge([a, b]) = merge([b, a]).
MergeLaws ==
    /\ "single" \in mdone => mrgA = ra
    /\ "both" \in mdone => mrgAB = mrgBA

\* C11, amended: merge([a]) = a, and merge([a, b]) holds the same values
\* with the same multiplicities as merge([b, a]); the two are a followed by
\* b and b followed by a.
MergeLawsUpToOrder ==
    /\ "single" \in mdone => mrgA = ra
    /\ "both" \in mdone =>
         /\ mrgAB = ra \o rb
         /\ mrgBA = rb \o ra
         /\ Len(mrgAB) = Len(mrgBA)
         /\ \A v \in RValues : Occurrences(mrgAB, v) = Occurrences(mrgBA, v)

\* two accumulators with different values were merged in both orders
MergeWitness ==
    /\ {"single", "both"} \subseteq mdone
    /\ ra = <<-10>> /\ rb = <<20, 0>>
    /\ mrgA = <<-10>>
    /\ mrgAB = <<-10, 20, 0>> /\ mrgBA = <<20, 0, -10>>

\* C12: extract on an accumulator without elements gives count 0 and the
\* not-a-number value for mean, std_dev and variance.
EmptyExtract ==
    ("ext" \in mdone /\ Len(ra) = 0) =>
        /\ outA.count = 0
        /\ outA.mean = NaN /\ outA.std_dev = NaN /\ outA.variance = NaN

\* the empty accumulator was extracted
EmptyExtractWitness ==
    /\ "ext" \in mdone
    /\ ra = <<>>
    /\ outA.count = 0

\* C13, as stated: for one value v, count = 1, mean = v, and std_dev and
\* variance are both undefined.
SingleValueUndefined ==
    ("ext" \in mdone /\ Len(ra) = 1) =>
        /\ outA.count = 1
        /\ outA.mean = Ratio(ra[1], Scale)
        /\ outA.std_dev = NaN
        /\ outA.variance = NaN

\* C14: a record that arrives for a FIRED pair raises the late-dropped
\* count by exactly one and is not accumulated; a record that is accepted,
\* which then is held in the accumulator of its pair or goes out in the
\* pane that fires on its arrival, leaves the count unchanged, and a record
\* raises it by one at most; no other step changes the count; and the
\* arrival of a late record leaves the pipeline ingesting.
LateDropCounted ==
    [][ /\ ingested' # ingested =>
             LET kw    == LastKW(ingested')
                 prior == IF kw \in DOMAIN store THEN Len(store[kw]) ELSE 0
             IN  /\ Len(ingested') = Len(ingested) + 1
                 /\ pc' = "ingest"
                 /\ kw \in fired =>
                        /\ lateDropped' = lateDropped + 1
                        /\ store' = store /\ emitted' = emitted
                 /\ (store' # store \/ emitted' # emitted) =>
                        /\ lateDropped' = lateDropped
                        /\ \/ /\ emitted' = emitted
                              /\ kw \in DOMAIN store'
                              /\ Len(store'[kw]) = prior + 1
                           \/ /\ kw \notin DOMAIN store'
                              /\ Len(emitted'[kw]) = Len(emitted[kw]) + 1
                              /\ emitted'[kw][Len(emitted'[kw])]
                                     .statistics.count = prior + 1
                 /\ (store' = store /\ emitted' = emitted) =>
                        lateDropped' = lateDropped + 1
        /\ ingested' = ingested => lateDropped' = lateDropped
      ]_vars

\* Scenario B: the first window of sensor_A fired with one record at
\* watermark Epoch + 60, where the window is not expired; the record of
\* sensor_A with event time Epoch + 30 arrived for it and was dropped,
\* observed once
LateDropWitness ==
    /\ lateDropped = 1
    /\ watermark = Fin(Epoch + 60)
    /\ ingested = <<data[1], data[2], data[3]>>
    /\ <<"sensor_A", W(0)>> \in fired
    /\ Len(emitted[<<"sensor_A", W(0)>>]) = 1
    /\ emitted[<<"sensor_A", W(0)>>][1].statistics.count = 1
    /\ pc = "ingest"

\* C15: no FIRED pair has an entry in the store; the step in which a pair
\* fires removes its accumulator, which it had before unless its first
\* record arrives in that step; when the pipeline is done the store is
\* empty.
StoreHoldsOnlyOpen ==
    /\ [](DOMAIN store \cap fired = {})
    /\ [](pc = "done" => DOMAIN store = {})
    /\ [][ \A kw \in fired' \ fired :
               /\ kw \notin DOMAIN store'
               /\ \/ kw \in DOMAIN store
                  \/ ingested' # ingested /\ LastKW(ingested') = kw ]_vars

\* the two pairs of the first window have fired and two others are open
StoreWitness ==
    /\ pc = "ingest"
    /\ watermark = Fin(Epoch + 60)
    /\ Cardinality(fired) = 2
    /\ Cardinality(DOMAIN store) = 2
    /\ lateDropped = 0

RECURSIVE SumCounts(_, _)
SumCounts(em, pairs) ==
    IF pairs = {} THEN 0
    ELSE LET kw == CHOOSE x \in pairs : TRUE
         IN  SumSeq([i \in DOMAIN em[kw] |-> em[kw][i].statistics.count])
               + SumCounts(em, pairs \ {kw})

RECURSIVE SumHeld(_, _)
SumHeld(st, pairs) ==
    IF pairs = {} THEN 0
    ELSE LET kw == CHOOSE x \in pairs : TRUE
         IN  Len(st[kw]) + SumHeld(st, pairs \ {kw})

\* C18: the counts of the emitted results, the records held in open
\* accumulators and the late-dropped count add up to the number of records
\* that arrived; when the pipeline is done nothing is held, so the emitted
\* counts plus the late-dropped count equal the number of arrived records.
RecordConservation ==
    /\ SumCounts(emitted, KW) + SumHeld(store, DOMAIN store) + lateDropped
           = Len(ingested)
    /\ pc = "done" =>
           SumCounts(emitted, KW) + lateDropped = Len(ingested)

\* all records arrived, some were emitted and some dropped as late
ConservationWitness ==
    /\ pc = "done"
    /\ Len(ingested) = Len(data)
    /\ lateDropped >= 1
    /\ SumCounts(emitted, KW) = Len(ingested) - lateDropped

\* C19, as stated: the arrival of a record for (k, w) leaves the
\* accumulator of every other pair, the set of FIRED pairs, every emitted
\* result and the watermark unchanged: it changes the accumulator of
\* (k, w) and nothing else.
IngestFrame ==
    [][ ingested' # ingested =>
            /\ \A kw \in KW \ {LastKW(ingested')} :
                  /\ (kw \in DOMAIN store') = (kw \in DOMAIN store)
                  /\ kw \in DOMAIN store => store'[kw] = store[kw]
            /\ fired' = fired
            /\ emitted' = emitted
            /\ watermark' = watermark
      ]_vars

\* C19, amended: the arrival of a record for (k, w) leaves the
\* accumulator, the OPEN or FIRED state and every emitted result of every
\* other pair unchanged, and the watermark unchanged.  Of (k, w) itself it
\* changes nothing when the record is dropped; otherwise it appends the
\* value to the accumulator, or, when the watermark is at the end of w, it
\* fires the pair in the same step: one result with the accumulated values
\* and the new one is emitted, the pair is FIRED and its accumulator gone.
IngestFrameOfOthers ==
    [][ ingested' # ingested =>
            LET own   == LastKW(ingested')
                v     == ingested'[Len(ingested')].value
                before == IF own \in DOMAIN store THEN store[own]
                          ELSE create_accumulator
            IN  /\ \A kw \in KW \ {own} :
                      /\ (kw \in DOMAIN store') = (kw \in DOMAIN store)
                      /\ kw \in DOMAIN store => store'[kw] = store[kw]
                      /\ (kw \in fired') = (kw \in fired)
                      /\ emitted'[kw] = emitted[kw]
                /\ watermark' = watermark
                /\ \/ /\ (own \in DOMAIN store') = (own \in DOMAIN store)
                      /\ own \in DOMAIN store => store'[own] = store[own]
                      /\ (own \in fired') = (own \in fired)
                      /\ emitted'[own] = emitted[own]
                      /\ lateDropped' = lateDropped + 1
                   \/ /\ own \in DOMAIN store'
                      /\ store'[own] = add_input(before, v)
                      /\ own \notin fired'
                      /\ emitted'[own] = emitted[own]
                      /\ ~AtOrAfterEnd(watermark, own[2])
                   \/ /\ own \notin DOMAIN store'
                      /\ own \notin fired /\ own \in fired'
                      /\ emitted'[own] =
                           Append(emitted[own],
                                  result(own[1], own[2],
                                     extract_output(add_input(before, v))))
                      /\ watermark = Fin(own[2].end)
      ]_vars

\* the watermark was at Epoch + 120 before the first record arrived: the
\* records of the first window were dropped without a result.  The record
\* of sensor_B for the second window, whose end the watermark is at, was
\* the first of its pair and arrived last: its pane fired in that step,
\* while the result of sensor_A for that window stayed as it was
FrameWitness ==
    /\ pc = "ingest"
    /\ watermark = Fin(Epoch + 120)
    /\ ingested = <<data[1], data[2], data[3], data[4], data[5]>>
    /\ lateDropped = 3
    /\ \A k \in Keys : emitted[<<k, W(0)>>] = <<>>
    /\ store = <<>>
    /\ fired = {<<"sensor_A", W(1)>>, <<"sensor_B", W(1)>>}
    /\ Len(emitted[<<"sensor_B", W(1)>>]) = 1
    /\ emitted[<<"sensor_B", W(1)>>][1].statistics.count = 1
    /\ emitted[<<"sensor_B", W(1)>>][1].statistics.mean = Num(49, 2)
    /\ Len(emitted[<<"sensor_A", W(1)>>]) = 1
    /\ emitted[<<"sensor_A", W(1)>>][1].statistics.mean = Num(21, 1)

\* C16: with the producers taking the entry one at a time, the shared
\* accumulator holds every accepted value exactly once and nothing else in
\* every interleaving, and the merge of the partial accumulators holds
\* exactly the values of all of them, each once; the accumulator a producer
\* loaded is the shared one once it has added its value.
NoLostUpdate ==
    /\ Len(cAcc) = Cardinality(cAccepted)
    /\ \A v \in AllValues :
         Occurrences(cAcc, v) = IF v \in cAccepted THEN 1 ELSE 0
    /\ Cardinality({p \in Producers : cPc[p] # "idle"}) <= 1
    /\ \A p \in Producers : cPc[p] = "stored" => cLocal[p] = cAcc
    /\ cDone =>
         /\ cAccepted = AllValues
         /\ Len(cMerged) = Cardinality(AllValues)
         /\ \A v \in AllValues :
              /\ Occurrences(cMerged, v) = 1
              /\ Occurrences(cMerged, v) = Occurrences(cAcc, v)

\* both producers brought their records, interleaved, and the partial
\* accumulators were merged
NoLostUpdateWitness ==
    /\ cDone
    /\ Len(cAcc) = NProducers * PerProducer
    /\ cAcc[1] = NextValue(1, PerProducer)
    /\ cAcc[2] = NextValue(2, PerProducer)
    /\ cMerged # cAcc

\* C17: the watermark the trigger engine read is never above the
\* watermark, so a (key, window) that fires on it fires with the watermark
\* at or after the end of the window.
StaleReadIsSafe ==
    /\ [](WmLeq(seen, watermark))
    /\ [][ \A kw \in KW :
              emitted'[kw] # emitted[kw] =>
                  /\ AtOrAfterEnd(seen, kw[2])
                  /\ AtOrAfterEnd(watermark, kw[2]) ]_vars

\* the trigger fired the first window on a watermark of Epoch + 60 it read
\* earlier; the watermark is Epoch + 120 by now and the second window is
\* still open: its firing is delayed
StaleReadWitness ==
    /\ seen = Fin(Epoch + 60)
    /\ watermark = Fin(Epoch + 120)
    /\ \E kw \in fired : kw[2] = W(0)
    /\ \E kw \in DOMAIN store : kw[2] = W(1)

====
